---- MODULE Spec2Model ----
(***************************************************************************)
(* qtask: a cooperative, tick-driven task scheduler (src/qtask.c,          *)
(* src/qtask.h).  The scheduler owns two circular, sentinel-headed,        *)
(* doubly linked lists (task_list = active, suspend_list = suspended);     *)
(* every task descriptor embeds its list node.  Memory is modelled at      *)
(* pointer level: next/prev map every node (the two sentinels and the      *)
(* task descriptors) to the node its pointer refers to.                    *)
(***************************************************************************)
EXTENDS Integers, Sequences, FiniteSets, TLC

(* ---------------------------- bounds ----------------------------------- *)
NumTasks  == 2      \* task descriptors the caller owns
MaxPeriod == 2      \* largest tick value passed to qtask_add / qtask_tick_set
MaxRtick  == 1      \* qtask_runtime_increase is not called once a rtick reaches this
LongPeriod == 3     \* largest tick value of the caller that only adds and ticks
BigTasks  == 1002   \* task descriptors of the caller with an oversized active list
TimerTasks == 1     \* task descriptors of the caller that changes periods
CbPeriod  == 1      \* largest tick value of the caller whose callbacks call back
IrqPeriod == 1      \* largest tick value of the caller that the tick interrupts

(* ---------------------------- addresses -------------------------------- *)
QNULL        == 0           \* ((void *)0)
task_list    == 0 - 1       \* &sched->task_list
suspend_list == 0 - 2       \* &sched->suspend_list
GARBAGE      == 0 - 3       \* an indeterminate pointer value that is not null
HANDLE       == 1           \* the address of a callback that calls nothing
CB_DEL       == 10          \* CB_DEL + k: a callback that calls qtask_del(&T_k)
CB_SUSPEND   == 20          \* CB_SUSPEND + k: ... qtask_suspend(T_k.name)
CB_ADD       == 30          \* CB_ADD + k: ... qtask_add(&T_k, its name, handle, period)

VARIABLES
    next,        \* QTaskList.next of every node
    prev,        \* QTaskList.prev of every node
    name,        \* QTaskObj.name
    id,          \* QTaskObj.id
    isready,     \* QTaskObj.isready
    handle,      \* QTaskObj.handle
    timer,       \* QTaskObj.timer
    period,      \* QTaskObj.period
    rtime,       \* QTaskObj.rtime
    rtick,       \* QTaskObj.rtick
    run_task,    \* QTaskSched.run_task
    fault,       \* an invalid pointer was dereferenced (behaviour undefined)
    called,      \* tasks whose handle the last qtask_exec invoked, in order
    registered,  \* descriptors that were passed to qtask_add or qtask_del
    op,          \* the last completed call: [fn, task, name, ret], and
                 \* whether the lists were well formed when it was made
    pc           \* the call in progress in call context, where a caller
                 \* lets the tick interrupt it: its position and locals

vars == <<next, prev, name, id, isready, handle, timer, period, rtime, rtick,
          run_task, fault, called, registered, op, pc>>

Tasks == DOMAIN timer
Nodes == DOMAIN next

(* The memory the operations work on, as one record. *)
Mem == [next |-> next, prev |-> prev, name |-> name, id |-> id,
        isready |-> isready, handle |-> handle, timer |-> timer,
        period |-> period, rtime |-> rtime, rtick |-> rtick,
        run_task |-> run_task, fault |-> fault, called |-> called, ret |-> 0]

(* ---------------------------- names and ids ---------------------------- *)
(* A name is QNULL or a string, given as the sequence of its character     *)
(* codes.  "aa" and "b@" are distinct names with the same 16-bit id.       *)
NameAA == <<97, 97>>
NameBAt == <<98, 64>>
NameC == <<99>>
NoName == <<0>>             \* stands for the null name pointer

RECURSIVE _id_hash(_, _)
_id_hash(hash, s) ==
    IF s = <<>> THEN hash
    ELSE _id_hash(((hash * 32) + hash + Head(s)) % 65536, Tail(s))

RECURSIVE _id_hash31(_, _)
_id_hash31(hash, s) ==
    IF s = <<>> THEN hash
    ELSE _id_hash31(((hash * 32) - hash + Head(s)) % 65536, Tail(s))

_id_calc_minus(nm) == IF nm = NoName THEN 0 ELSE _id_hash31(5381, nm)

_id_calc(nm) == IF nm = NoName THEN 0 ELSE _id_hash(5381, nm)

(* ---------------------------- list primitives -------------------------- *)
(* Dereferencing a pointer that is null or indeterminate is a fault. *)
Valid(m, p) == p \in DOMAIN m.next

Fault(m) == [m EXCEPT !.fault = TRUE]

_list_insert_tail(m, list, node) ==
    IF m.fault THEN m
    ELSE LET m1 == [m  EXCEPT !.next[m.prev[list]] = node]
             m2 == [m1 EXCEPT !.prev[node] = m1.prev[list]]
             m3 == [m2 EXCEPT !.prev[list] = node]
         IN  [m3 EXCEPT !.next[node] = list]

_list_insert(m, list, node) ==
    IF m.fault THEN m
    ELSE IF ~Valid(m, m.next[list]) THEN Fault(m)
    ELSE LET m1 == [m  EXCEPT !.prev[m.next[list]] = node]
             m2 == [m1 EXCEPT !.next[node] = m1.next[list]]
             m3 == [m2 EXCEPT !.next[list] = node]
         IN  [m3 EXCEPT !.prev[node] = list]

_list_remove(m, node) ==
    IF m.fault THEN m
    ELSE IF ~Valid(m, m.next[node]) THEN Fault(m)
    ELSE LET m1 == [m EXCEPT !.prev[m.next[node]] = m.prev[node]]
         IN  IF ~Valid(m1, m1.prev[node]) THEN Fault(m1)
             ELSE LET m2 == [m1 EXCEPT !.next[m1.prev[node]] = m1.next[node]]
                  IN  [m2 EXCEPT !.next[node] = node, !.prev[node] = node]

(* QTASK_ITERATOR(node, list): the nodes the loop visits, in order, when   *)
(* the body leaves the links alone.  IterFrom(m, list, node, fuel) is the  *)
(* walk that starts at node and makes at most fuel steps; it stops at the  *)
(* list head and at an invalid pointer.  The walk is evaluated in two      *)
(* halves, which keeps the evaluation depth logarithmic in its length.     *)
RECURSIVE IterFrom(_, _, _, _)
IterFrom(m, list, node, fuel) ==
    IF node = list \/ ~Valid(m, node) \/ fuel = 0 THEN <<>>
    ELSE IF fuel = 1 THEN <<node>>
    ELSE LET half  == fuel \div 2
             first == IterFrom(m, list, node, half)
         IN  IF Len(first) < half THEN first
             ELSE first \o IterFrom(m, list, m.next[first[half]],
                                    fuel - half)

QTASK_ITERATOR(m, list) ==
    IterFrom(m, list, m.next[list], Cardinality(DOMAIN m.next))

Range(s) == {s[i] : i \in 1..Len(s)}

_qtask_isexist(m, task) ==
    \E n \in Range(QTASK_ITERATOR(m, task_list)) : m.id[task] = m.id[n]

_qdtask_isexsit(m, task) ==
    \E n \in Range(QTASK_ITERATOR(m, suspend_list)) : m.id[task] = m.id[n]

ActiveOf(m)    == Range(QTASK_ITERATOR(m, task_list))
SuspendedOf(m) == Range(QTASK_ITERATOR(m, suspend_list))

(* ---------------------------- operations ------------------------------- *)
qtask_sched_init(m) ==
    [m EXCEPT !.next[task_list] = task_list, !.prev[task_list] = task_list,
              !.next[suspend_list] = suspend_list,
              !.prev[suspend_list] = suspend_list]

ResetAndRemove_keep_timer(m, task) ==
    _list_remove([m EXCEPT !.isready[task] = 0], task)

(* The block shared by qtask_del, qtask_suspend and qtask_resume: reset    *)
(* the task and unlink its node.                                           *)
ResetAndRemove(m, task) ==
    _list_remove([m EXCEPT !.isready[task] = 0,
                           !.timer[task] = m.period[task]], task)

qtask_add(m, task, nm, h, tick) ==
    LET m1 == [m EXCEPT !.name[task] = nm, !.id[task] = _id_calc(nm),
                        !.isready[task] = 0, !.handle[task] = h,
                        !.timer[task] = tick, !.period[task] = tick,
                        !.rtime[task] = 0, !.rtick[task] = 0]
        m2 == IF _qdtask_isexsit(m1, task) THEN ResetAndRemove(m1, task)
              ELSE m1
    IN  IF m2.fault THEN m2
        ELSE IF ~_qtask_isexist(m2, task)
             THEN [_list_insert(m2, task_list, task) EXCEPT !.ret = 0]
             ELSE [m2 EXCEPT !.ret = 1]

DelBody_inverted_check(m, task) ==
    LET m1 == IF _qtask_isexist(m, task) THEN ResetAndRemove(m, task) ELSE m
    IN  IF m1.fault THEN m1
        ELSE IF _qdtask_isexsit(m1, task)
             THEN [_list_insert(m1, suspend_list, task) EXCEPT !.ret = 0]
             ELSE [m1 EXCEPT !.ret = 0 - 1]

DelBody_always_insert(m, task) ==
    LET m1 == IF _qtask_isexist(m, task) THEN ResetAndRemove(m, task) ELSE m
    IN  IF m1.fault THEN m1
        ELSE [_list_insert(m1, suspend_list, task) EXCEPT !.ret = 0]

(* Lines 114-124, also the body of the match in qtask_suspend (137-147). *)
DelBody(m, task) ==
    LET m1 == IF _qtask_isexist(m, task) THEN ResetAndRemove(m, task) ELSE m
    IN  IF m1.fault THEN m1
        ELSE IF ~_qdtask_isexsit(m1, task)
             THEN [_list_insert(m1, suspend_list, task) EXCEPT !.ret = 0]
             ELSE [m1 EXCEPT !.ret = 0 - 1]

qtask_del(m, task) == DelBody(m, task)

(* QTASK_ITERATOR_SAFE: the initial and the stepped value of safe. *)
SafeOf(m, node) == IF node # QNULL /\ Valid(m, node) THEN m.next[node] ELSE QNULL

qtask_suspend(m, nm) ==
    LET hits == SelectSeq(QTASK_ITERATOR(m, task_list),
                          LAMBDA n : m.id[n] = _id_calc(nm))
    IN  IF hits = <<>> THEN [m EXCEPT !.ret = 0 - 1]
        ELSE DelBody(m, Head(hits))

RECURSIVE ResumeLoop(_, _, _, _, _)
ResumeLoop(m, want, node, safe, fuel) ==
    IF m.fault THEN m
    ELSE IF node = QNULL \/ node = suspend_list \/ fuel = 0
         THEN [m EXCEPT !.ret = 0 - 1]
    ELSE IF ~Valid(m, node) THEN Fault(m)
    ELSE IF m.id[node] = want
         THEN LET m1 == IF _qdtask_isexsit(m, node)
                        THEN ResetAndRemove(m, node) ELSE m
              IN  IF m1.fault THEN m1
                  ELSE IF ~_qtask_isexist(m1, node)
                       THEN [_list_insert(m1, task_list, node) EXCEPT !.ret = 0]
                       ELSE ResumeLoop(m1, want, safe, SafeOf(m1, safe), fuel - 1)
         ELSE ResumeLoop(m, want, safe, SafeOf(m, safe), fuel - 1)

qtask_resume(m, nm) ==
    LET node == m.next[suspend_list]
    IN  ResumeLoop(m, _id_calc(nm), node, SafeOf(m, node),
                   Cardinality(DOMAIN m.next))

qtask_obj_suspended(m, nm) ==
    LET hits == SelectSeq(QTASK_ITERATOR(m, suspend_list),
                          LAMBDA n : m.id[n] = _id_calc(nm))
    IN  IF hits = <<>> THEN QNULL ELSE Head(hits)

qtask_obj(m, nm) ==
    LET hits == SelectSeq(QTASK_ITERATOR(m, task_list),
                          LAMBDA n : m.id[n] = _id_calc(nm))
    IN  IF hits = <<>> THEN QNULL ELSE Head(hits)

(* ---------------------------- single writes ---------------------------- *)
(* The memory writes of the registration calls, one by one in program      *)
(* order: a write stores v in field f of the object at address a.          *)
W(f, a, v) == [f |-> f, a |-> a, v |-> v]

Apply(m, w) == [m EXCEPT ![w.f][w.a] = w.v]

RECURSIVE ApplyAll(_, _)
ApplyAll(m, ws) == IF ws = <<>> THEN m ELSE ApplyAll(Apply(m, Head(ws)), Tail(ws))

_list_insert_writes_head_first(m, list, node) ==
    <<W("next", list, node),
      W("prev", m.next[list], node),
      W("next", node, m.next[list]),
      W("prev", node, list)>>

(* Lines 26-29. *)
_list_insert_writes(m, list, node) ==
    LET w1 == W("prev", m.next[list], node)
        m1 == Apply(m, w1)
        w2 == W("next", node, m1.next[list])
    IN  <<w1, w2, W("next", list, node), W("prev", node, list)>>

(* Lines 34-36.  The two stores of "node->next = node->prev = node" are    *)
(* not ordered by the language: prevFirst chooses the order.               *)
_list_remove_writes(m, node, prevFirst) ==
    LET w1 == W("prev", m.next[node], m.prev[node])
        m1 == Apply(m, w1)
        w2 == W("next", m1.prev[node], m1.next[node])
    IN  <<w1, w2>> \o (IF prevFirst
                       THEN <<W("prev", node, node), W("next", node, node)>>
                       ELSE <<W("next", node, node), W("prev", node, node)>>)

ResetAndRemoveWrites(m, task, prevFirst) ==
    <<W("isready", task, 0), W("timer", task, m.period[task])>>
        \o _list_remove_writes(m, task, prevFirst)

qtask_add_writes(m, task, nm, h, tick, prevFirst) ==
    LET ws1 == <<W("name", task, nm), W("id", task, _id_calc(nm)),
                 W("isready", task, 0), W("handle", task, h),
                 W("timer", task, tick), W("period", task, tick),
                 W("rtime", task, 0), W("rtick", task, 0)>>
        m1  == ApplyAll(m, ws1)
        ws2 == IF _qdtask_isexsit(m1, task)
               THEN ResetAndRemoveWrites(m1, task, prevFirst) ELSE <<>>
        m2  == ApplyAll(m1, ws2)
    IN  ws1 \o ws2 \o (IF ~_qtask_isexist(m2, task)
                       THEN _list_insert_writes(m2, task_list, task)
                       ELSE <<>>)

DelBodyWrites(m, task, prevFirst) ==
    LET ws1 == IF _qtask_isexist(m, task)
               THEN ResetAndRemoveWrites(m, task, prevFirst) ELSE <<>>
        m1  == ApplyAll(m, ws1)
    IN  ws1 \o (IF ~_qdtask_isexsit(m1, task)
                THEN _list_insert_writes(m1, suspend_list, task)
                ELSE <<>>)

qtask_del_writes(m, task, prevFirst) == DelBodyWrites(m, task, prevFirst)

qtask_suspend_writes(m, nm, prevFirst) ==
    LET hits == SelectSeq(QTASK_ITERATOR(m, task_list),
                          LAMBDA n : m.id[n] = _id_calc(nm))
    IN  IF hits = <<>> THEN <<>>
        ELSE DelBodyWrites(m, Head(hits), prevFirst)

RECURSIVE ResumeWrites(_, _, _, _, _, _)
ResumeWrites(m, want, node, safe, fuel, prevFirst) ==
    IF node = QNULL \/ node = suspend_list \/ fuel = 0 \/ ~Valid(m, node)
    THEN <<>>
    ELSE IF m.id[node] = want
         THEN LET ws1 == IF _qdtask_isexsit(m, node)
                         THEN ResetAndRemoveWrites(m, node, prevFirst)
                         ELSE <<>>
                  m1  == ApplyAll(m, ws1)
              IN  IF ~_qtask_isexist(m1, node)
                  THEN ws1 \o _list_insert_writes(m1, task_list, node)
                  ELSE ws1 \o ResumeWrites(m1, want, safe, SafeOf(m1, safe),
                                           fuel - 1, prevFirst)
         ELSE ResumeWrites(m, want, safe, SafeOf(m, safe), fuel - 1,
                           prevFirst)

qtask_resume_writes(m, nm, prevFirst) ==
    LET node == m.next[suspend_list]
    IN  ResumeWrites(m, _id_calc(nm), node, SafeOf(m, node),
                     Cardinality(DOMAIN m.next), prevFirst)

(* ---------------------------- passes ----------------------------------- *)
QTASK_TICK_CAP == 1000      \* the literal of "if(count > 1000)"

(* task->handle(): what the callback at address h does.  A callback has   *)
(* no argument; the descriptor T_k it works on is fixed in its code.       *)
Callback(m, h) ==
    LET k == h % 10
    IN  IF h = HANDLE THEN m
        ELSE IF h - k = CB_DEL THEN qtask_del(m, k)
        ELSE IF h - k = CB_SUSPEND THEN qtask_suspend(m, m.name[k])
        ELSE qtask_add(m, k, m.name[k], m.handle[k], m.period[k])

(* Line 204: invoke the handle (a null handle is a fault). *)
ExecCall(m, task) ==
    IF m.handle[task] = QNULL THEN Fault(m)
    ELSE Callback([m EXCEPT !.called = Append(m.called, task)],
                  m.handle[task])

(* Lines 205-207: rtime = rtick, isready = 0, rtick = 0. *)
ExecClear(m, task) ==
    [m EXCEPT !.rtime[task] = m.rtick[task],
              !.isready[task] = 0,
              !.rtick[task] = 0]

(* The body of qtask_exec for one ready task. *)
ExecTask_keep_ready(m, task) ==
    IF m.handle[task] = QNULL THEN Fault(m)
    ELSE [m EXCEPT !.called = Append(m.called, task),
                   !.rtime[task] = m.rtick[task]]

ExecTask(m, task) ==
    LET m1 == ExecCall(m, task)
    IN  IF m1.fault THEN m1 ELSE ExecClear(m1, task)

(* A QTASK_ITERATOR_SAFE loop in progress: the memory, the loop variables *)
(* node and safe, the local counter, and whether the loop was left.        *)
Scan(m, node, safe, count) ==
    [m |-> m, node |-> node, safe |-> safe, count |-> count, done |-> FALSE]

Left(s, m) == [s EXCEPT !.m = m, !.done = TRUE]

ExecIter_unsafe(s) ==
    IF s.m.fault \/ s.node = QNULL \/ s.node = task_list THEN Left(s, s.m)
    ELSE IF ~Valid(s.m, s.node) \/ s.node \notin DOMAIN s.m.isready
         THEN Left(s, Fault(s.m))
    ELSE LET m1 == IF s.m.isready[s.node] # 0 THEN ExecTask(s.m, s.node)
                   ELSE s.m
         IN  Scan(m1, m1.next[s.node], QNULL, s.count)

(* One iteration of the loop of qtask_exec: the loop condition, the body   *)
(* and the step to the saved successor.  QTASK_ENTRY of a node that is not *)
(* embedded in a task descriptor (the sentinel of the other list) is a     *)
(* pointer outside every object: reading isready through it is a fault.    *)
ExecIter(s) ==
    IF s.m.fault \/ s.node = QNULL \/ s.node = task_list THEN Left(s, s.m)
    ELSE IF ~Valid(s.m, s.node) \/ s.node \notin DOMAIN s.m.isready
         THEN Left(s, Fault(s.m))
    ELSE LET m1 == IF s.m.isready[s.node] # 0 THEN ExecTask(s.m, s.node)
                   ELSE s.m
         IN  Scan(m1, s.safe, SafeOf(m1, s.safe), s.count)

(* k iterations of the loop, evaluated in two halves (logarithmic          *)
(* evaluation depth).                                                      *)
RECURSIVE ExecLoop(_, _)
ExecLoop(s, k) ==
    IF s.done \/ k = 0 THEN s
    ELSE IF k = 1 THEN ExecIter(s)
    ELSE LET half == ExecLoop(s, k \div 2)
         IN  IF half.done THEN half ELSE ExecLoop(half, k - (k \div 2))

(* The loop of qtask_exec after at most k iterations.  A pass over a list  *)
(* of n nodes that ends does so within ExecFuel iterations; a pass that    *)
(* has not left the loop by then never returns.                            *)
ExecFuel(m) == 2 * Cardinality(DOMAIN m.next)

ExecScan(m, k) ==
    LET m0 == [m EXCEPT !.called = <<>>]
        node == m0.next[task_list]
    IN  ExecLoop(Scan(m0, node, SafeOf(m0, node), 0), k)

(* A loop without side effects that never ends is undefined behaviour     *)
(* (the compiler may assume that it terminates): a fault.                  *)
qtask_exec(m) ==
    LET s == ExecScan(m, ExecFuel(m))
    IN  IF s.done THEN s.m ELSE Fault(s.m)

(* Lines 229-235: the timer step of one task. *)
(* size_t arithmetic: --timer wraps modulo 2^16, the narrowest size_t. *)
SizeWrap(n) == n % 65536

TickTask_no_reload(m, task) ==
    IF m.timer[task] > 0
    THEN IF SizeWrap(m.timer[task] - 1) <= 0
         THEN [m EXCEPT !.isready[task] = 1, !.run_task = task,
                        !.timer[task] = 0]
         ELSE [m EXCEPT !.timer[task] = SizeWrap(m.timer[task] - 1)]
    ELSE m

TickTask_unguarded(m, task) ==
    IF SizeWrap(m.timer[task] - 1) <= 0
    THEN [m EXCEPT !.isready[task] = 1, !.run_task = task,
                   !.timer[task] = m.period[task]]
    ELSE [m EXCEPT !.timer[task] = SizeWrap(m.timer[task] - 1)]

TickTask(m, task) ==
    IF m.timer[task] > 0
    THEN IF SizeWrap(m.timer[task] - 1) <= 0
         THEN [m EXCEPT !.isready[task] = 1, !.run_task = task,
                        !.timer[task] = m.period[task]]
         ELSE [m EXCEPT !.timer[task] = SizeWrap(m.timer[task] - 1)]
    ELSE m

(* One iteration of the loop of qtask_tick_increase: the loop condition,   *)
(* the null checks, the timer step, the counter and its check, and the     *)
(* step to the saved successor.  As in qtask_exec, taking a node that is   *)
(* not embedded in a task descriptor as a task is a fault.                 *)
TickIter(s) ==
    IF s.m.fault \/ s.node = QNULL \/ s.node = task_list THEN Left(s, s.m)
    ELSE IF ~Valid(s.m, s.node) THEN Left(s, Fault(s.m))
    ELSE IF s.m.next[s.node] = QNULL \/ s.m.prev[s.node] = QNULL
         THEN Left(s, s.m)
    ELSE IF s.node \notin DOMAIN s.m.timer THEN Left(s, Fault(s.m))
    ELSE LET m1 == TickTask(s.m, s.node)
         IN  IF s.count + 1 > QTASK_TICK_CAP THEN Left(s, m1)
             ELSE Scan(m1, s.safe, SafeOf(m1, s.safe), s.count + 1)

(* k iterations of the loop, evaluated in two halves (logarithmic          *)
(* evaluation depth).                                                      *)
RECURSIVE TickLoop(_, _)
TickLoop(s, k) ==
    IF s.done \/ k = 0 THEN s
    ELSE IF k = 1 THEN TickIter(s)
    ELSE LET half == TickLoop(s, k \div 2)
         IN  IF half.done THEN half ELSE TickLoop(half, k - (k \div 2))

qtask_tick_increase_both_lists(m) ==
    LET node == m.next[task_list]
        r == TickLoop(Scan(m, node, SafeOf(m, node), 0),
                      QTASK_TICK_CAP + QTASK_TICK_CAP).m
        parked == Range(QTASK_ITERATOR(r, suspend_list))
    IN  [r EXCEPT !.timer = [t \in DOMAIN r.timer |->
                               IF t \in parked /\ r.timer[t] > 0
                               THEN r.timer[t] - 1 ELSE r.timer[t]]]

(* The counter check leaves the loop well within 2 * QTASK_TICK_CAP        *)
(* iterations.                                                             *)
TickScan(m, k) ==
    LET node == m.next[task_list]
    IN  TickLoop(Scan(m, node, SafeOf(m, node), 0), k)

qtask_tick_increase(m) == TickScan(m, QTASK_TICK_CAP + QTASK_TICK_CAP).m

(* The iterations of a tick pass started in m that apply the timer step,   *)
(* among the first 2n of a memory of n nodes, and the tasks the pass       *)
(* makes ready.                                                            *)
TickStepsOf(m) ==
    {k \in 0..(2 * Cardinality(DOMAIN m.next)) :
        LET s == TickScan(m, k)
        IN  /\ ~s.done /\ ~s.m.fault
            /\ s.node \notin {QNULL, task_list} /\ Valid(s.m, s.node)
            /\ s.m.next[s.node] # QNULL /\ s.m.prev[s.node] # QNULL}

TickFired(m) ==
    {TickScan(m, k).node : k \in {j \in TickStepsOf(m) :
        LET s == TickScan(m, j)
        IN  s.node \in DOMAIN s.m.timer /\ s.m.timer[s.node] = 1}}

(* The tasks whose timer expires in a tick pass started in m, in list order. *)
Expiring(m) ==
    SelectSeq(QTASK_ITERATOR(m, task_list), LAMBDA n : m.timer[n] = 1)

RECURSIVE RuntimeLoop_clear_ready(_, _)
RuntimeLoop_clear_ready(m, nodes) ==
    IF nodes = <<>> THEN m
    ELSE RuntimeLoop_clear_ready(
             IF m.isready[Head(nodes)] # 0
             THEN [m EXCEPT !.rtick[Head(nodes)] = @ + 1,
                            !.isready[Head(nodes)] = 0]
             ELSE m,
             Tail(nodes))

RECURSIVE RuntimeLoop(_, _)
RuntimeLoop(m, nodes) ==
    IF nodes = <<>> THEN m
    ELSE RuntimeLoop(IF m.isready[Head(nodes)] # 0
                     THEN [m EXCEPT !.rtick[Head(nodes)] = @ + 1] ELSE m,
                     Tail(nodes))

qtask_runtime_increase(m) == RuntimeLoop(m, QTASK_ITERATOR(m, task_list))

(* "if(!sched->run_task) sched->run_task->timer = tick": the write goes    *)
(* through run_task exactly when run_task is null.                         *)
qtask_sleep(m, tick) ==
    IF m.run_task = QNULL THEN Fault(m) ELSE m

qtask_tick_set(m, obj, tick) == [m EXCEPT !.period[obj] = tick]

(* ---------------------------- the caller ------------------------------- *)
(* Descriptor 1 is always registered as "aa"; descriptor 2 as "b@" (same   *)
(* id as "aa") or with a null name (id 0, the id of a descriptor that was  *)
(* never registered); any further descriptor as "c".                       *)
NamesOf(t) == IF t = 1 THEN {NameAA}
              ELSE IF t = 2 THEN {NameBAt, NoName} ELSE {NameC}
Names  == UNION {NamesOf(t) : t \in Tasks}
Ticks  == 0..MaxPeriod
Sentinels == {task_list, suspend_list}

(* No call is in progress.  Of a call in progress pc holds the function,   *)
(* its arguments and result, the writes it still has to make (a            *)
(* registration call) or node, safe and the position in the loop body      *)
(* (qtask_exec); act is the set of tasks active before or after the call,  *)
(* exact whether the lists were well formed when it began, and owed the    *)
(* set of tasks that expired and whose handle was not invoked since.       *)
Idle == [fn |-> "idle", task |-> QNULL, name |-> NoName, ret |-> 0,
         writes |-> <<>>, node |-> QNULL, safe |-> QNULL, stage |-> "none",
         act |-> {}, exact |-> TRUE, owed |-> {}]

(* The scheduler object is either static (zeroed) or automatic             *)
(* (indeterminate) storage; the task descriptors are static objects.       *)
InitWith(tasks, raw) ==
    /\ next = [n \in tasks \cup Sentinels |-> IF n \in Sentinels THEN raw ELSE QNULL]
    /\ prev = [n \in tasks \cup Sentinels |-> IF n \in Sentinels THEN raw ELSE QNULL]
    /\ name = [t \in tasks |-> NoName]
    /\ id = [t \in tasks |-> 0]
    /\ isready = [t \in tasks |-> 0]
    /\ handle = [t \in tasks |-> QNULL]
    /\ timer = [t \in tasks |-> 0]
    /\ period = [t \in tasks |-> 0]
    /\ rtime = [t \in tasks |-> 0]
    /\ rtick = [t \in tasks |-> 0]
    /\ run_task = raw
    /\ fault = FALSE
    /\ called = <<>>
    /\ registered = {}
    /\ op = [fn |-> "none", task |-> QNULL, name |-> NoName, ret |-> 0,
             exact |-> TRUE]
    /\ pc = Idle

Init == \E raw \in {QNULL, GARBAGE} : InitWith(1..NumTasks, raw)

Initialised == next[task_list] \in Nodes /\ next[suspend_list] \in Nodes

(* Every registered descriptor is linked into exactly one of the two       *)
(* lists.                                                                  *)
ExactlyOneList ==
    /\ ~fault
    /\ LET a == Range(QTASK_ITERATOR(Mem, task_list))
           b == Range(QTASK_ITERATOR(Mem, suspend_list))
       IN  \A t \in registered : (t \in a) # (t \in b)

(* The memory becomes r. *)
Store(r) ==
    /\ next' = r.next
    /\ prev' = r.prev
    /\ name' = r.name
    /\ id' = r.id
    /\ isready' = r.isready
    /\ handle' = r.handle
    /\ timer' = r.timer
    /\ period' = r.period
    /\ rtime' = r.rtime
    /\ rtick' = r.rtick
    /\ run_task' = r.run_task
    /\ fault' = r.fault
    /\ called' = r.called

(* One completed call: the memory becomes r, the call is recorded. *)
Return(r, fn, task, nm, ret, reg) ==
    /\ Store(r)
    /\ registered' = reg
    /\ op' = [fn |-> fn, task |-> task, name |-> nm, ret |-> ret,
              exact |-> ExactlyOneList]
    /\ pc' = Idle

Quiet == [Mem EXCEPT !.called = <<>>]
Running == Initialised /\ ~fault

SchedInit ==
    /\ ~Initialised /\ ~fault
    /\ Return(qtask_sched_init(Quiet), "qtask_sched_init", QNULL, NoName, 0, registered)

Add ==
    /\ Running
    /\ \E t \in Tasks, tick \in Ticks : \E nm \in NamesOf(t) :
         LET r == qtask_add(Quiet, t, nm, HANDLE, tick)
         IN  Return(r, "qtask_add", t, nm, r.ret, registered \cup {t})

Del ==
    /\ Running
    /\ \E t \in Tasks :
         LET r == qtask_del(Quiet, t)
         IN  Return(r, "qtask_del", t, NoName, r.ret, registered \cup {t})

Suspend ==
    /\ Running
    /\ \E nm \in Names :
         LET r == qtask_suspend(Quiet, nm)
         IN  Return(r, "qtask_suspend", QNULL, nm, r.ret, registered)

Resume ==
    /\ Running
    /\ \E nm \in Names :
         LET r == qtask_resume(Quiet, nm)
         IN  Return(r, "qtask_resume", QNULL, nm, r.ret, registered)

Obj ==
    /\ Running
    /\ \E nm \in Names :
         Return(Quiet, "qtask_obj", QNULL, nm, qtask_obj(Quiet, nm), registered)

(* Descriptors that the callbacks invoked in a pass hand to qtask_del. *)
DeletedBy(seq) ==
    {handle[seq[i]] % 10 : i \in {j \in 1..Len(seq) :
                                    handle[seq[j]] - (handle[seq[j]] % 10) = CB_DEL}}

Exec ==
    /\ Running
    /\ LET r == qtask_exec(Quiet)
       IN  Return(r, "qtask_exec", QNULL, NoName, 0,
                  registered \cup DeletedBy(r.called))

TickIncrease ==
    /\ Running
    /\ Return(qtask_tick_increase(Quiet), "qtask_tick_increase", QNULL, NoName, 0,
              registered)

RuntimeIncrease ==
    /\ Running
    /\ \A t \in Tasks : rtick[t] < MaxRtick
    /\ Return(qtask_runtime_increase(Quiet), "qtask_runtime_increase", QNULL,
              NoName, 0, registered)

Sleep ==
    /\ Running
    /\ \E tick \in Ticks :
         Return(qtask_sleep(Quiet, tick), "qtask_sleep", QNULL, NoName, 0, registered)

TickSet ==
    /\ Running
    /\ \E t \in registered, tick \in Ticks :
         Return(qtask_tick_set(Quiet, t, tick), "qtask_tick_set", t, NoName, 0,
                registered)

(* The registration calls, the lookup, the tick pass and the execute pass. *)
Next ==
    \/ SchedInit
    \/ Add
    \/ Del
    \/ Suspend
    \/ Resume
    \/ Obj
    \/ Exec
    \/ TickIncrease

Spec == Init /\ [][Next]_vars

(* The registration calls and the three passes, with the run-time          *)
(* measurement, on a scheduler in static storage.                          *)
NextRun ==
    \/ SchedInit
    \/ Add
    \/ Del
    \/ Suspend
    \/ Resume
    \/ Exec
    \/ TickIncrease
    \/ RuntimeIncrease

InitRun == InitWith(1..NumTasks, QNULL)

SpecRun == InitRun /\ [][NextRun]_vars

(* A caller that also changes periods (qtask_tick_set) and calls           *)
(* qtask_sleep, with TimerTasks descriptors.                               *)
InitTimer == \E raw \in {QNULL, GARBAGE} : InitWith(1..TimerTasks, raw)

NextTimer ==
    \/ SchedInit
    \/ Add
    \/ Del
    \/ Suspend
    \/ Resume
    \/ Exec
    \/ TickIncrease
    \/ Sleep
    \/ TickSet

SpecTimer == InitTimer /\ [][NextTimer]_vars

(* A caller that registers tasks with periods up to LongPeriod and then    *)
(* only lets the tick and execute passes run.                              *)
AddLong ==
    /\ Running
    /\ \E t \in Tasks, tick \in 1..LongPeriod : \E nm \in NamesOf(t) :
         LET r == qtask_add(Quiet, t, nm, HANDLE, tick)
         IN  Return(r, "qtask_add", t, nm, r.ret, registered \cup {t})

NextTick ==
    \/ SchedInit
    \/ AddLong
    \/ TickIncrease
    \/ Exec

SpecTick == Init /\ [][NextTick]_vars

(* A caller that registers BigTasks tasks one after the other, each under  *)
(* its own three-character name (the names' ids are pairwise distinct),    *)
(* and starts the tick source once QTASK_TICK_CAP tasks are active.        *)
NameBig(t) == <<48 + (t \div 1089), 48 + ((t \div 33) % 33), 48 + (t % 33)>>

InitBig == InitWith(1..BigTasks, GARBAGE)

AddBig ==
    /\ Running
    /\ \E t \in Tasks :
         /\ t \notin registered
         /\ \A u \in 1..(t - 1) : u \in registered
         /\ LET r == qtask_add(Quiet, t, NameBig(t), HANDLE, 1)
            IN  Return(r, "qtask_add", t, NameBig(t), r.ret, registered \cup {t})

TickBig ==
    /\ Cardinality(registered) >= QTASK_TICK_CAP
    /\ TickIncrease

NextBig ==
    \/ SchedInit
    \/ AddBig
    \/ TickBig
    \/ Exec

SpecBig == InitBig /\ [][NextBig]_vars

(* A caller whose callbacks call scheduler operations: a callback of task *)
(* t deletes or suspends any task, or registers t again.                   *)
Handles(t) ==
    {HANDLE, CB_ADD + t} \cup {CB_DEL + k : k \in Tasks}
                         \cup {CB_SUSPEND + k : k \in Tasks}

AddCb ==
    /\ Running
    /\ \E t \in Tasks, tick \in 1..CbPeriod :
         \E nm \in NamesOf(t), h \in Handles(t) :
            LET r == qtask_add(Quiet, t, nm, h, tick)
            IN  Return(r, "qtask_add", t, nm, r.ret, registered \cup {t})

NextCb ==
    \/ SchedInit
    \/ AddCb
    \/ Resume
    \/ TickIncrease
    \/ Exec

SpecCb == InitRun /\ [][NextCb]_vars

(* A caller that leaves the tick interrupt enabled: the registration calls *)
(* run one memory write at a time, qtask_exec one step of its loop at a    *)
(* time, and qtask_tick_increase runs as a whole between any two of these  *)
(* steps.  The tick pass writes timer, isready and run_task only, and the  *)
(* registration calls read none of them: the writes of a call are those    *)
(* fixed when it begins.  A call that would dereference an invalid pointer *)
(* is not made here.                                                       *)
RegFns == {"qtask_add", "qtask_del", "qtask_suspend", "qtask_resume"}

Begin(r, ws, fn, task, nm) ==
    /\ ~r.fault
    /\ pc' = [Idle EXCEPT !.fn = fn, !.task = task, !.name = nm,
                          !.ret = r.ret, !.writes = ws,
                          !.act = ActiveOf(Quiet) \cup ActiveOf(r),
                          !.exact = ExactlyOneList,
                          !.owed = pc.owed]
    /\ Store(Quiet)
    /\ UNCHANGED <<registered, op>>

AddBegin ==
    /\ Running /\ pc.fn = "idle"
    /\ \E t \in Tasks, tick \in 1..IrqPeriod, prevFirst \in BOOLEAN :
         \E nm \in NamesOf(t) :
            Begin(qtask_add(Quiet, t, nm, HANDLE, tick),
                  qtask_add_writes(Quiet, t, nm, HANDLE, tick, prevFirst),
                  "qtask_add", t, nm)

DelBegin ==
    /\ Running /\ pc.fn = "idle"
    /\ \E t \in Tasks, prevFirst \in BOOLEAN :
         Begin(qtask_del(Quiet, t), qtask_del_writes(Quiet, t, prevFirst),
               "qtask_del", t, NoName)

SuspendBegin ==
    /\ Running /\ pc.fn = "idle"
    /\ \E nm \in Names, prevFirst \in BOOLEAN :
         Begin(qtask_suspend(Quiet, nm),
               qtask_suspend_writes(Quiet, nm, prevFirst),
               "qtask_suspend", QNULL, nm)

ResumeBegin ==
    /\ Running /\ pc.fn = "idle"
    /\ \E nm \in Names, prevFirst \in BOOLEAN :
         Begin(qtask_resume(Quiet, nm),
               qtask_resume_writes(Quiet, nm, prevFirst),
               "qtask_resume", QNULL, nm)

(* The next write of the registration call in progress. *)
RegWrite ==
    /\ ~fault /\ pc.fn \in RegFns /\ pc.writes # <<>>
    /\ Store(Apply(Mem, Head(pc.writes)))
    /\ pc' = [pc EXCEPT !.writes = Tail(@),
                        !.owed = IF Head(pc.writes).f = "isready"
                                 THEN @ \ {Head(pc.writes).a} ELSE @]
    /\ UNCHANGED <<registered, op>>

(* The registration call in progress returns. *)
RegReturn ==
    /\ ~fault /\ pc.fn \in RegFns /\ pc.writes = <<>>
    /\ op' = [fn |-> pc.fn, task |-> pc.task, name |-> pc.name,
              ret |-> pc.ret, exact |-> pc.exact]
    /\ registered' = registered \cup ({pc.task} \ {QNULL})
    /\ pc' = [Idle EXCEPT !.owed = pc.owed \cap ActiveOf(Mem)]
    /\ UNCHANGED <<next, prev, name, id, isready, handle, timer, period,
                   rtime, rtick, run_task, fault, called>>

(* qtask_exec: the initialisation of the loop (lines 15-16). *)
ExecBegin ==
    /\ Running /\ pc.fn = "idle"
    /\ Store(Quiet)
    /\ pc' = [Idle EXCEPT !.fn = "qtask_exec", !.stage = "test",
                          !.node = next[task_list],
                          !.safe = SafeOf(Mem, next[task_list]),
                          !.owed = pc.owed]
    /\ UNCHANGED <<registered, op>>

(* The loop condition (line 17) and the test of isready (line 203): the    *)
(* pass returns, or goes on to invoke the handle, or steps to the saved    *)
(* successor (line 18).                                                    *)
ExecTest ==
    /\ ~fault /\ pc.fn = "qtask_exec" /\ pc.stage = "test"
    /\ IF pc.node = QNULL \/ pc.node = task_list
       THEN /\ op' = [fn |-> "qtask_exec", task |-> QNULL, name |-> NoName,
                      ret |-> 0, exact |-> TRUE]
            /\ pc' = [Idle EXCEPT !.owed = pc.owed]
            /\ Store(Mem)
       ELSE IF ~Valid(Mem, pc.node) \/ pc.node \notin Tasks
       THEN /\ Store(Fault(Mem))
            /\ UNCHANGED <<op, pc>>
       ELSE /\ Store(Mem)
            /\ op' = op
            /\ pc' = IF isready[pc.node] # 0
                     THEN [pc EXCEPT !.stage = "call"]
                     ELSE [pc EXCEPT !.node = pc.safe,
                                     !.safe = SafeOf(Mem, pc.safe)]
    /\ UNCHANGED registered

(* task->handle() (line 204). *)
ExecInvoke ==
    /\ ~fault /\ pc.fn = "qtask_exec" /\ pc.stage = "call"
    /\ Store(ExecCall(Mem, pc.node))
    /\ pc' = [pc EXCEPT !.stage = "clear", !.owed = @ \ {pc.node}]
    /\ UNCHANGED <<registered, op>>

(* The writes after the handle returned (lines 205-207), then the step to  *)
(* the saved successor (line 18).                                          *)
ExecClearStep ==
    /\ ~fault /\ pc.fn = "qtask_exec" /\ pc.stage = "clear"
    /\ Store(ExecClear(Mem, pc.node))
    /\ pc' = [pc EXCEPT !.stage = "test", !.node = pc.safe,
                        !.safe = SafeOf(Mem, pc.safe)]
    /\ UNCHANGED <<registered, op>>

(* The tick interrupt: a whole qtask_tick_increase pass, wherever the call *)
(* context is.                                                             *)
TickIrq ==
    /\ Running
    /\ Store(qtask_tick_increase(Mem))
    /\ pc' = [pc EXCEPT !.owed = @ \cup TickFired(Mem)]
    /\ UNCHANGED <<registered, op>>

(* The registration calls, write by write, and the tick interrupt. *)
NextRegIrq ==
    \/ SchedInit
    \/ AddBegin
    \/ DelBegin
    \/ SuspendBegin
    \/ ResumeBegin
    \/ RegWrite
    \/ RegReturn
    \/ TickIrq

SpecRegIrq == InitRun /\ [][NextRegIrq]_vars

(* qtask_add and qtask_exec, step by step, and the tick interrupt. *)
NextExecIrq ==
    \/ SchedInit
    \/ AddBegin
    \/ RegWrite
    \/ RegReturn
    \/ ExecBegin
    \/ ExecTest
    \/ ExecInvoke
    \/ ExecClearStep
    \/ TickIrq

SpecExecIrq == InitRun /\ [][NextExecIrq]_vars

(* ---------------------------- views of the state ----------------------- *)
ActiveSeq    == QTASK_ITERATOR(Mem, task_list)
SuspendedSeq == QTASK_ITERATOR(Mem, suspend_list)
InActive(t)    == t \in Range(ActiveSeq)
InSuspended(t) == t \in Range(SuspendedSeq)

UniqueId(t) == \A u \in registered \ {t} : id[u] # id[t]

DistinctIds == \A t, u \in registered : t # u => id[t] # id[u]

(* Both lists are circular: prev undoes next, and walking next from a      *)
(* sentinel returns to it.                                                 *)
Circular ==
    Initialised /\ ~fault =>
        \A l \in Sentinels :
            /\ \A n \in Range(QTASK_ITERATOR(Mem, l)) \cup {l} :
                  next[n] \in Nodes /\ prev[next[n]] = n
            /\ Len(QTASK_ITERATOR(Mem, l)) < Cardinality(Nodes)

(* ---------------------------- claims ----------------------------------- *)

(* C1, as stated: after every completed call every registered descriptor   *)
(* is in exactly one of the active and the suspended list, also when two   *)
(* descriptors have the same id.                                           *)
C1_ExactlyOneAlways ==
    ~fault => \A t \in registered : InActive(t) # InSuspended(t)

(* C1, amended: no descriptor is ever in both lists, and every call made   *)
(* when each registered descriptor was in exactly one list (op.exact) that *)
(* leaves the ids of the registered descriptors pairwise distinct          *)
(* completes and leaves each registered descriptor in exactly one list.    *)
C1_ExactlyOneWhileDistinct ==
    /\ ~fault => Range(ActiveSeq) \cap Range(SuspendedSeq) = {}
    /\ (op.exact /\ DistinctIds) => ExactlyOneList

C1_Witness ==
    /\ op.fn = "qtask_resume" /\ op.ret = 0
    /\ DistinctIds /\ ExactlyOneList
    /\ \E t, u \in registered : InActive(t) /\ InSuspended(u)

(* C2, as stated: after every completed call every registered task has    *)
(* 0 <= timer <= period, also after qtask_tick_set changed the period.     *)
C2_TimerWithinPeriod ==
    ~fault => \A t \in registered : 0 <= timer[t] /\ timer[t] <= period[t]

(* C2, amended: timer is never negative, and every call other than         *)
(* qtask_tick_set leaves timer <= period for each task that satisfied it   *)
(* before the call (qtask_tick_set writes period alone, so lowering the    *)
(* period below a running countdown leaves timer > period).                *)
C2_TimerWithinPeriodUnlessSet ==
    /\ [](\A t \in Tasks : timer[t] >= 0)
    /\ [][op'.fn # "qtask_tick_set" =>
            \A t \in Tasks : timer[t] <= period[t] => timer'[t] <= period'[t]]_vars

C2_Witness ==
    /\ op.fn = "qtask_tick_increase"
    /\ \E t \in registered :
          InActive(t) /\ isready[t] = 0 /\ 0 < timer[t] /\ timer[t] < period[t]

(* k consecutive qtask_tick_increase calls. *)
RECURSIVE TickN(_, _)
TickN(m, k) == IF k = 0 THEN m ELSE qtask_tick_increase(TickN(m, k - 1))

Countdown(t, runTaskIs(_, _, _)) ==
    LET p == period[t]
    IN  \A k \in 1..p :
          LET mk == TickN(Quiet, k)
          IN  IF k < p
              THEN mk.isready[t] = 0 /\ mk.timer[t] = p - k
              ELSE /\ mk.isready[t] = 1
                   /\ mk.timer[t] = p
                   /\ runTaskIs(TickN(Quiet, k - 1), mk, t)

JustAdded(t) ==
    /\ ~fault /\ op.fn = "qtask_add" /\ op.task = t
    /\ InActive(t) /\ period[t] >= 1

(* C3, as stated: after qtask_add with period p >= 1, the k-th tick call   *)
(* (k < p) leaves ready = 0 and timer = p - k; after the p-th call ready   *)
(* is 1, timer is p and run_task is the task.                              *)
C3_Countdown ==
    \A t \in Tasks :
        JustAdded(t) => Countdown(t, LAMBDA m0, m1, u : m1.run_task = u)

(* C3, amended: as above, but after the p-th call run_task is the last     *)
(* task in active-list order that expired in that call: the task itself    *)
(* when no task behind it in the list expired in the same call.            *)
C3_CountdownLastExpired ==
    \A t \in Tasks :
        JustAdded(t) =>
            Countdown(t, LAMBDA m0, m1, u :
                           /\ u \in Range(Expiring(m0))
                           /\ m1.run_task = Expiring(m0)[Len(Expiring(m0))])

C3_Witness ==
    /\ op.fn = "qtask_tick_increase"
    /\ \E t \in Tasks :
          /\ InActive(t) /\ isready[t] = 1 /\ run_task = t
          /\ period[t] = 3 /\ timer[t] = 3
    /\ \E u \in Tasks : InActive(u) /\ isready[u] = 0 /\ timer[u] < period[u]

Count(seq, x) == Cardinality({i \in 1..Len(seq) : seq[i] = x})

SameTask(m, t) ==
    /\ m.isready[t] = isready[t] /\ m.timer[t] = timer[t]
    /\ m.period[t] = period[t] /\ m.rtime[t] = rtime[t]
    /\ m.rtick[t] = rtick[t] /\ m.id[t] = id[t] /\ m.name[t] = name[t]
    /\ m.handle[t] = handle[t] /\ m.next[t] = next[t] /\ m.prev[t] = prev[t]

(* C4: one qtask_exec call invokes the handle of every active task that    *)
(* was ready exactly once and leaves it with ready = 0, rtick = 0 and      *)
(* rtime = the rtick it had; an active task that was not ready is not      *)
(* invoked and keeps all its fields; afterwards no active task is ready.   *)
C4_ExecRunsReadyOnce ==
    Running =>
        LET r == qtask_exec(Quiet)
        IN  /\ ~r.fault
            /\ \A t \in Range(ActiveSeq) :
                  IF isready[t] # 0
                  THEN /\ Count(r.called, t) = 1
                       /\ r.isready[t] = 0 /\ r.rtick[t] = 0
                       /\ r.rtime[t] = rtick[t]
                  ELSE Count(r.called, t) = 0 /\ SameTask(r, t)
            /\ \A t \in ActiveOf(r) : r.isready[t] = 0

C4_Witness ==
    /\ op.fn = "qtask_exec" /\ ~fault
    /\ \E t, u \in Range(ActiveSeq) :
          /\ t \in Range(called) /\ isready[t] = 0 /\ rtime[t] = 1 /\ rtick[t] = 0
          /\ u \notin Range(called) /\ timer[u] < period[u]

NoEffect(r) == r = [Quiet EXCEPT !.ret = r.ret]

Without(seq, x) == SelectSeq(seq, LAMBDA n : n # x)

NamedIn(seq, nm) == {t \in Range(seq) : id[t] = _id_calc(nm)}

RedundantRejected(only(_)) ==
    Running =>
        /\ \A nm \in Names :
              /\ (\E t \in NamedIn(ActiveSeq, nm) : only(t)) =>
                    LET r == qtask_resume(Quiet, nm)
                    IN  r.ret = 0 - 1 /\ NoEffect(r)
              /\ (\E t \in NamedIn(SuspendedSeq, nm) : only(t)) =>
                    LET r == qtask_suspend(Quiet, nm)
                    IN  r.ret = 0 - 1 /\ NoEffect(r)
              /\ (\A t \in registered : id[t] # _id_calc(nm)) =>
                    /\ LET r == qtask_suspend(Quiet, nm)
                       IN  r.ret = 0 - 1 /\ NoEffect(r)
                    /\ LET r == qtask_resume(Quiet, nm)
                       IN  r.ret = 0 - 1 /\ NoEffect(r)
        /\ \A t \in Range(SuspendedSeq) :
              only(t) => LET r == qtask_del(Quiet, t)
                         IN  r.ret = 0 - 1 /\ NoEffect(r)

(* C6, as stated: qtask_resume of a name whose task is active, and         *)
(* qtask_suspend or qtask_del of a task that is suspended, return -1 and   *)
(* change nothing; so do suspend and resume of a name that matches no      *)
(* registered task.                                                        *)
C6_RedundantRejected == RedundantRejected(LAMBDA t : TRUE)

(* C6, amended: the same, for a task whose id no other registered          *)
(* descriptor has.                                                         *)
C6_RedundantRejectedUnique == RedundantRejected(UniqueId)

C6_Witness ==
    /\ op.fn = "qtask_del" /\ op.ret = 0 - 1 /\ ~fault
    /\ InSuspended(op.task) /\ UniqueId(op.task)
    /\ \E u \in registered : InActive(u)

C9_InitEmptyNoCurrent ==
    op.fn = "qtask_sched_init" =>
        ActiveSeq = <<>> /\ SuspendedSeq = <<>> /\ run_task = QNULL

(* C10: qtask_add(T, name, handle, p) with a name whose id no other        *)
(* registered descriptor has ends with T in the active list only, ready =  *)
(* 0, timer = period = p, rtick = rtime = 0.  It returns 0 exactly when T  *)
(* was not active (T is then the head of the active list and no longer in  *)
(* the suspended list, the other tasks keeping their order) and 1 exactly  *)
(* when T was active (both lists then keep members and order).             *)
C10_Add ==
    Running =>
        \A t \in Tasks, p \in Ticks : \A nm \in NamesOf(t) :
            (\A u \in registered \ {t} : id[u] # _id_calc(nm)) =>
                LET r  == qtask_add(Quiet, t, nm, HANDLE, p)
                    ra == QTASK_ITERATOR(r, task_list)
                    rs == QTASK_ITERATOR(r, suspend_list)
                IN  /\ ~r.fault
                    /\ t \in Range(ra) /\ t \notin Range(rs)
                    /\ r.isready[t] = 0 /\ r.timer[t] = p /\ r.period[t] = p
                    /\ r.rtick[t] = 0 /\ r.rtime[t] = 0
                    /\ r.ret \in {0, 1}
                    /\ r.ret = 0 <=> ~InActive(t)
                    /\ r.ret = 0 => /\ ra = <<t>> \o ActiveSeq
                                    /\ rs = Without(SuspendedSeq, t)
                    /\ r.ret = 1 => ra = ActiveSeq /\ rs = SuspendedSeq

C10_Witness ==
    /\ op.fn = "qtask_add" /\ op.ret = 0 /\ ~fault
    /\ DistinctIds /\ Len(ActiveSeq) = 2 /\ Head(ActiveSeq) = op.task
    /\ timer[op.task] = 2 /\ period[op.task] = 2
    /\ op.name = NoName /\ handle[op.task] = HANDLE

(* The tasks a tick pass started now would change. *)
Ticked ==
    LET r == qtask_tick_increase(Quiet)
    IN  {t \in Tasks : r.timer[t] # timer[t] \/ r.isready[t] # isready[t]}

(* C7: one qtask_tick_increase call applies the timer step to at most      *)
(* 1000 tasks; the tasks behind the first 1000 of the active list are left *)
(* unchanged.                                                              *)
C7_TickAtMost1000 ==
    Running =>
        /\ Cardinality(Ticked) <= 1000
        /\ \A i \in 1..Len(ActiveSeq) : i > 1000 => ActiveSeq[i] \notin Ticked

(* The fields of memory a lookup could write. *)
ObjFrame ==
    op'.fn = "qtask_obj" =>
        UNCHANGED <<next, prev, name, id, isready, handle, timer, period,
                    rtime, rtick, run_task, fault, registered>>

(* C11: qtask_obj(name) returns a task exactly when the active list holds  *)
(* a task whose id is the id of name; the task returned is in the active   *)
(* list, has that id and is not in the suspended list; otherwise the       *)
(* result is null; and a qtask_obj call changes no field of any task, no   *)
(* link and not run_task.                                                  *)
C11_ObjFindsActiveOnly ==
    /\ [](Running =>
            \A nm \in Names :
                LET r == qtask_obj(Quiet, nm)
                IN  /\ r # QNULL <=> NamedIn(ActiveSeq, nm) # {}
                    /\ r # QNULL => /\ r \in NamedIn(ActiveSeq, nm)
                                    /\ r \notin Range(SuspendedSeq))
    /\ [][ObjFrame]_vars

C11_Witness ==
    /\ op.fn = "qtask_obj" /\ op.ret = QNULL /\ ~fault
    /\ NamedIn(SuspendedSeq, op.name) # {}
    /\ ActiveSeq # <<>>

(* C12: a task that is in the suspended list keeps every field and both    *)
(* links through a qtask_tick_increase, a qtask_runtime_increase and a     *)
(* qtask_exec call, and qtask_exec does not invoke its handle; this in     *)
(* every state any sequence of calls leads to.                             *)
C12_SuspendedExempt ==
    Running =>
        \A t \in Range(SuspendedSeq) :
            /\ SameTask(qtask_tick_increase(Quiet), t)
            /\ SameTask(qtask_runtime_increase(Quiet), t)
            /\ LET r == qtask_exec(Quiet)
               IN  SameTask(r, t) /\ t \notin Range(r.called)

C12_Witness ==
    /\ op.fn = "qtask_tick_increase" /\ ~fault
    /\ \E t \in Range(SuspendedSeq), u \in Range(ActiveSeq) :
          /\ handle[t] = HANDLE /\ timer[t] = 2 /\ isready[t] = 0
          /\ isready[u] = 1 /\ run_task = u

(* C13: an active task whose timer is 0 is made ready, or gets a positive  *)
(* timer, by the next qtask_tick_increase call, whatever period qtask_add  *)
(* or qtask_tick_set gave it (0 included).                                 *)
C13_NeverStuckAtZero ==
    Running =>
        \A t \in Range(ActiveSeq) :
            timer[t] = 0 =>
                LET r == qtask_tick_increase(Quiet)
                IN  r.isready[t] = 1 \/ r.timer[t] >= 1

(* C14: one qtask_exec call invokes the ready tasks in active-list order,  *)
(* and the active list is ordered most recently inserted first: a          *)
(* qtask_add or qtask_resume that returns 0 puts its task in front of the  *)
(* tasks that were active, which keep their order, and every other call    *)
(* leaves the remaining active tasks in their order.                       *)
C14_ExecNewestFirst ==
    Running =>
        /\ qtask_exec(Quiet).called =
               SelectSeq(ActiveSeq, LAMBDA n : isready[n] # 0)
        /\ \A t \in Tasks, p \in Ticks : \A nm \in NamesOf(t) :
              LET r  == qtask_add(Quiet, t, nm, HANDLE, p)
                  ra == QTASK_ITERATOR(r, task_list)
              IN  ~r.fault =>
                     IF r.ret = 0 THEN ra = <<t>> \o Without(ActiveSeq, t)
                     ELSE ra = ActiveSeq
        /\ \A nm \in Names :
              LET r  == qtask_resume(Quiet, nm)
                  ra == QTASK_ITERATOR(r, task_list)
              IN  ~r.fault =>
                     IF r.ret = 0
                     THEN /\ ra = <<Head(ra)>> \o ActiveSeq
                          /\ Head(ra) \in Range(SuspendedSeq)
                     ELSE ra = ActiveSeq
        /\ \A nm \in Names :
              LET r == qtask_suspend(Quiet, nm)
              IN  ~r.fault =>
                     \E t \in Tasks \cup {QNULL} :
                        QTASK_ITERATOR(r, task_list) = Without(ActiveSeq, t)
        /\ \A t \in Tasks :
              LET r == qtask_del(Quiet, t)
              IN  ~r.fault =>
                     QTASK_ITERATOR(r, task_list) = Without(ActiveSeq, t)
        /\ QTASK_ITERATOR(qtask_tick_increase(Quiet), task_list) = ActiveSeq
        /\ QTASK_ITERATOR(qtask_exec(Quiet), task_list) = ActiveSeq

C14_Witness ==
    /\ op.fn = "qtask_exec" /\ ~fault
    /\ Len(called) = 2 /\ called = ActiveSeq
    /\ called[1] = 1 /\ called[2] = 2

(* C15: qtask_runtime_increase adds 1 to the rtick of every task that is   *)
(* in the active list and ready, and changes nothing else in memory.       *)
C15_RuntimeIncreaseFrame ==
    Running =>
        qtask_runtime_increase(Quiet) =
            [Quiet EXCEPT !.rtick =
                [t \in Tasks |-> IF InActive(t) /\ isready[t] # 0
                                 THEN rtick[t] + 1 ELSE rtick[t]]]

C15_Witness ==
    /\ op.fn = "qtask_runtime_increase" /\ ~fault
    /\ \E t, u \in Range(ActiveSeq) :
          /\ isready[t] = 1 /\ rtick[t] = 1
          /\ isready[u] = 0 /\ rtick[u] = 0

(* C16: in every state of an initialised scheduler a qtask_sleep call      *)
(* makes no access through a null run_task and changes nothing.            *)
C16_SleepDeadCode ==
    Running =>
        \A tick \in Ticks :
            LET r == qtask_sleep(Quiet, tick)
            IN  ~r.fault /\ NoEffect(r)

(* The iterations of a qtask_exec pass started now that run the loop body, *)
(* and the node each of them treats as a task.                             *)
ExecVisits ==
    {k \in 0..ExecFuel(Quiet) :
        LET s == ExecScan(Quiet, k)
        IN  ~s.done /\ ~s.m.fault /\ s.node \notin {QNULL, task_list}}

(* Every node the pass treats as a task is a task descriptor that is in    *)
(* the active list when the pass reaches it.                               *)
VisitsActiveOnly ==
    \A k \in ExecVisits :
        LET s == ExecScan(Quiet, k)
        IN  s.node \in Tasks /\ s.node \in ActiveOf(s.m)

(* The pass ends and dereferences no invalid pointer. *)
ExecReturns ==
    LET s == ExecScan(Quiet, ExecFuel(Quiet))
    IN  s.done /\ ~s.m.fault

(* Every callback of an active task calls nothing or works on its own task. *)
SelfOnly ==
    \A t \in Range(ActiveSeq) :
        handle[t] \in {HANDLE, CB_DEL + t, CB_SUSPEND + t, CB_ADD + t}

SelfCallbackTolerated(membership(_)) ==
    (Running /\ SelfOnly /\ ExactlyOneList) =>
        LET r == qtask_exec(Quiet)
        IN  /\ ExecReturns
            /\ VisitsActiveOnly
            /\ \A t \in Range(ActiveSeq) :
                  isready[t] # 0 => Count(r.called, t) = 1
            /\ membership(r)

MembershipIn(r) ==
    \A t \in registered :
        (t \in ActiveOf(r)) # (t \in SuspendedOf(r))

(* C17, as stated: a qtask_exec pass in which every callback calls nothing *)
(* or calls qtask_del, qtask_suspend or qtask_add on its own task ends,    *)
(* invokes every task that was active and ready exactly once, treats only  *)
(* active tasks as tasks, and leaves every registered task in exactly one  *)
(* list.                                                                   *)
C17_SelfCallbackAlways == SelfCallbackTolerated(MembershipIn)

(* C17, amended: the same, with every registered task left in exactly one  *)
(* list when the ids of the registered descriptors are pairwise distinct.  *)
C17_SelfCallbackDistinct ==
    SelfCallbackTolerated(LAMBDA r : DistinctIds => MembershipIn(r))

C17_Witness ==
    /\ op.fn = "qtask_exec" /\ ~fault /\ op.exact /\ DistinctIds
    /\ Len(called) = 2 /\ called[1] # called[2]
    /\ handle[called[1]] = CB_DEL + called[1]
    /\ InSuspended(called[1]) /\ InActive(called[2])

(* The descriptor the callback at address h works on. *)
TargetOf(h) == h % 10

(* C19: with registered descriptors of pairwise distinct ids, each in      *)
(* exactly one list, a qtask_exec pass whose callbacks delete or suspend   *)
(* registered tasks, the successor of the running task included, ends,     *)
(* dereferences no invalid pointer and treats only tasks of the active     *)
(* list as tasks.                                                          *)
C19_ExecStaysInActiveList ==
    (/\ Running /\ ExactlyOneList /\ DistinctIds
     /\ \A t \in Range(ActiveSeq) :
           handle[t] = HANDLE \/ TargetOf(handle[t]) \in registered) =>
        ExecReturns /\ VisitsActiveOnly

(* The iterations of a tick pass started now that apply the timer step,    *)
(* within the first TickFuel iterations.                                   *)
TickFuel == 2 * Cardinality(Nodes)

TickSteps == TickStepsOf(Mem)

(* C18: wherever a registration call stands between two of its memory      *)
(* writes (before the first and after the last included), a tick pass      *)
(* that runs there ends without the iteration cap, dereferences no invalid *)
(* pointer, applies the timer step to task descriptors only, to each at    *)
(* most once, and only to tasks that are in the active list before or      *)
(* after the interrupted call; and the writes of the call, made one by     *)
(* one, give the lists the whole call gives.                               *)
C18_TickIrqTolerated ==
    (~fault /\ pc.fn \in RegFns) =>
        /\ TickScan(Mem, TickFuel).done
        /\ ~qtask_tick_increase(Mem).fault
        /\ \A k \in TickSteps :
              LET n == TickScan(Mem, k).node
              IN  /\ n \in Tasks /\ n \in pc.act
                  /\ \A j \in TickSteps : j # k => TickScan(Mem, j).node # n
        /\ pc.writes = <<>> =>
              ActiveOf(Mem) \subseteq pc.act /\ (pc.exact => Circular)

(* qtask_del(T1) has cleared isready and made the first write of           *)
(* _list_remove; the tick pass that ran there made T1 ready again.         *)
C18_Witness ==
    /\ pc.fn = "qtask_del" /\ pc.task = 1 /\ Len(pc.writes) = 7 /\ ~fault
    /\ ActiveSeq = <<2, 1>>
    /\ isready[1] = 1 /\ run_task = 1

(* C20: a task that expired in a tick pass and is still active stays ready *)
(* until its handle is invoked: qtask_exec does not clear the ready flag   *)
(* of an expiration that came after it invoked the handle.                 *)
C20_NoLostExpiration ==
    ~fault => \A t \in pc.owed : InActive(t) => isready[t] # 0

====
